---- MODULE Spec2Model ----
(***************************************************************************)
(* Lifecycle / health-coordination core of the OpenRelik VS Code           *)
(* extension (src/src/extension.ts, first revision, lines 1-276).          *)
(*                                                                         *)
(* The extension host runs JavaScript on one thread.  A handler runs       *)
(* without interruption up to its next `await` on an external event (the   *)
(* fetch of a health probe, the retry timer, the input box), so every      *)
(* action below is one such run-to-suspension segment.  Resuming from an   *)
(* `await` of an already finished async function is a microtask and is     *)
(* part of the same segment.                                               *)
(***************************************************************************)
EXTENDS Integers, Sequences, FiniteSets, Bags, TLC

(***************************************************************************)
(* Bounds of the model.                                                    *)
(***************************************************************************)
\* Retry budget the start command hands to waitForOpenRelik.  The code uses
\* the default of 100 (extension.ts:40, call at :187); the loop is the same
\* for every budget, the model explores it for a small one.
MaxRetries == 2
\* Largest retry budget drawn for a direct call of waitForOpenRelik (SpecWait).
MaxWaitRetries == 3
\* Number of start invocations whose wait loop may be alive at the same time.
MaxStarts == 2
\* Number of newWorker invocations that may be suspended in the input box.
MaxPrompts == 2
\* Number of terminals open at the same time.
MaxTerminals == 2

(***************************************************************************)
(* Values.                                                                 *)
(***************************************************************************)
Status == {"stopped", "running", "unknown"}

\* JavaScript `undefined`; a template literal renders it as this text.
Undefined == "undefined"

\* Mutant of Truthy: only the empty string is falsy.
TruthyUnlessEmpty(v) == v # ""

\* JavaScript truthiness of a string-or-undefined value.
Truthy(v) == v # Undefined /\ v # ""

\* What a health probe can end with: an HTTP response with a status code, or
\* a rejection of the fetch promise (abort by the timeout, connection
\* refused, any other transport error).
Codes == {199, 200, 299, 300, 404}
ErrorTypes == {"AbortError", "ECONNREFUSED", "Error"}
Outcomes ==
    [type : {"response"}, status : Codes] \cup [type : ErrorTypes, status : {0}]
NoOutcome == [type |-> "none", status |-> 0]
\* The outcomes explored where probes interleave with the commands: one for
\* each way through checkHealth.
SomeOutcomes ==
    {o \in Outcomes : o.type \in {"response", "AbortError"}
                      /\ o.status \in {0, 200, 404}}
\* Mutant of ResponseOk: the lower end of the range is excluded.
ResponseOkAbove200(outcome) == outcome.status > 200 /\ outcome.status <= 299

\* Response.ok of the fetch API: the status is in the range 200-299.
ResponseOk(outcome) == outcome.status >= 200 /\ outcome.status <= 299

\* What the user can leave the input box with: Escape (undefined), Enter on
\* an empty box, Enter on a worker name.
Inputs == {Undefined, "", "w1"}

VARIABLES
    dockerComposeStatus,   \* the module-level status
    workerTerminals,       \* the module-level list of worker terminals
    terminals,             \* vscode.window.terminals: the open terminals
    workspaceFolders,      \* workspace.workspaceFolders (<<>> = undefined)
    waiters,               \* the waitForOpenRelik invocations not yet over
    prompts,               \* the newWorker invocations waiting in showInputBox
    statusBarCommand,      \* what the status bar item offers
    lastOp,                \* history: the last handler segment and what it did
    prevOp,                \* history: whether the segment before it was a stop
    okSinceStart,          \* history: a probe saw 2xx since the last start
    statusWriter,          \* history: who wrote dockerComposeStatus last
    workerChecks           \* history: for each element of workerTerminals,
                           \* the status its newWorker had tested

vars == <<dockerComposeStatus, workerTerminals, terminals, workspaceFolders,
          waiters, prompts, statusBarCommand, lastOp, prevOp,
          okSinceStart, statusWriter, workerChecks>>

Range(s) == {s[i] : i \in 1..Len(s)}

(***************************************************************************)
(* Pure functions of the source.                                           *)
(***************************************************************************)
\* Mutant of getWorkspaceRoot: with no folder open it falls back to the
\* current directory.
getWorkspaceRootDefaultsToCwd ==
    IF workspaceFolders = <<>> THEN "." ELSE workspaceFolders[1]

getWorkspaceRoot ==
    IF workspaceFolders = <<>> THEN Undefined ELSE workspaceFolders[1]

\* `${workspacePath}/openrelik-dev`
DevPathOf(workspacePath) == workspacePath \o "/openrelik-dev"

\* The first open terminal of that name, 0 for undefined.
getTerminal(name) ==
    LET found == {i \in 1..Len(terminals) :
                     terminals[i].open /\ terminals[i].name = name}
    IN  IF found = {} THEN 0
        ELSE CHOOSE i \in found : \A j \in found : i <= j

\* The command the status bar item offers after updateStatusBar(path).
updateStatusBar(workspacePath, status) ==
    IF ~Truthy(workspacePath) THEN "hidden"
    ELSE CASE status = "running" -> "openrelik.stopOpenRelik"
           [] status = "stopped" -> "openrelik.startOpenRelik"
           [] status = "unknown" -> ""
           [] OTHER -> "hidden"

\* Mutant of checkHealth: the catch block handles the timeout and the refused
\* connection and rethrows every other error.
checkHealthRethrows(outcome) ==
    IF outcome.type = "response"
    THEN IF ResponseOk(outcome)
         THEN [status |-> "running", ret |-> TRUE, log |-> "none",
               raised |-> FALSE]
         ELSE [status |-> "unknown", ret |-> FALSE, log |-> "none",
               raised |-> FALSE]
    ELSE IF outcome.type \in {"AbortError", "ECONNREFUSED"}
    THEN [status |-> "unknown", ret |-> FALSE,
          log |-> IF outcome.type = "AbortError" THEN "timed out"
                  ELSE "refused",
          raised |-> FALSE]
    ELSE [status |-> dockerComposeStatus, ret |-> FALSE, log |-> "none",
          raised |-> TRUE]

\* Mutant of checkHealth: every HTTP response counts as healthy.
checkHealthAnyResponse(outcome) ==
    IF outcome.type = "response"
    THEN [status |-> "running", ret |-> TRUE, log |-> "none", raised |-> FALSE]
    ELSE [status |-> "unknown", ret |-> FALSE, log |-> "error",
          raised |-> FALSE]

\* Mutant of checkHealth: a failed probe reports the platform as stopped.
checkHealthFailureStopped(outcome) ==
    IF outcome.type = "response" /\ ResponseOk(outcome)
    THEN [status |-> "running", ret |-> TRUE, log |-> "none", raised |-> FALSE]
    ELSE [status |-> "stopped", ret |-> FALSE, log |-> "error",
          raised |-> FALSE]

\* checkHealth, from the outcome of its fetch: the status it writes, the
\* value it returns, what it logs and whether it throws to its caller.
checkHealth(outcome) ==
    IF outcome.type = "response"
    THEN IF ResponseOk(outcome)
         THEN [status |-> "running", ret |-> TRUE, log |-> "none",
               raised |-> FALSE]
         ELSE [status |-> "unknown", ret |-> FALSE, log |-> "none",
               raised |-> FALSE]
    ELSE [status |-> "unknown", ret |-> FALSE,
          log |-> IF outcome.type = "AbortError" THEN "timed out"
                  ELSE IF outcome.type = "ECONNREFUSED" THEN "refused"
                  ELSE "error",
          raised |-> FALSE]

(***************************************************************************)
(* waitForOpenRelik.                                                       *)
(***************************************************************************)
IdleWaiter ==
    [pc |-> "idle", caller |-> "none", maxRetries |-> 0, retryCount |-> 0,
     probes |-> 0, results |-> <<>>, progress |-> <<>>,
     success |-> 0, failure |-> 0, ret |-> "none"]

\* Mutant of LoopHead: a loop that has used its attempts waits for the timer
\* again instead of returning.
LoopHeadNeverGivesUp(wt) ==
    IF wt.retryCount < wt.maxRetries
    THEN [wt EXCEPT !.pc = "fetch", !.probes = @ + 1]
    ELSE [wt EXCEPT !.pc = "sleep"]

\* Mutant of LoopHead: the loop test lets one more iteration through.
LoopHeadOneMore(wt) ==
    IF wt.retryCount <= wt.maxRetries
    THEN [wt EXCEPT !.pc = "fetch", !.probes = @ + 1]
    ELSE [wt EXCEPT !.pc = "done", !.failure = @ + 1, !.ret = "false"]

\* The loop test of waitForOpenRelik: another probe is issued, or the loop is
\* left with the failure message and `false`.
LoopHead(wt) ==
    IF wt.retryCount < wt.maxRetries
    THEN [wt EXCEPT !.pc = "fetch", !.probes = @ + 1]
    ELSE [wt EXCEPT !.pc = "done", !.failure = @ + 1, !.ret = "false"]

\* A call of waitForOpenRelik(url, maxRetries), up to its first suspension.
waitForOpenRelik(caller, maxRetries) ==
    LoopHead([IdleWaiter EXCEPT !.caller = caller, !.maxRetries = maxRetries])

\* Mutant of AfterProbe: the success message is shown but the loop is not
\* left.
AfterProbeNoReturn(wt, isHealthy) ==
    [wt EXCEPT !.pc = "sleep", !.retryCount = @ + 1,
               !.success = IF isHealthy THEN @ + 1 ELSE @,
               !.progress = Append(@, <<wt.retryCount + 1, wt.maxRetries>>),
               !.results = Append(@, isHealthy)]

\* The rest of the loop body once checkHealth has returned.
AfterProbe(wt, isHealthy) ==
    IF isHealthy
    THEN [wt EXCEPT !.pc = "done", !.success = @ + 1, !.ret = "true",
                    !.results = Append(@, TRUE)]
    ELSE [wt EXCEPT !.pc = "sleep", !.retryCount = @ + 1,
                    !.progress =
                        Append(@, <<wt.retryCount + 1, wt.maxRetries>>),
                    !.results = Append(@, FALSE)]

\* Mutant of BarAfterWait: the start command does not update the status bar
\* when its wait has returned.
BarAfterWaitStale(wt, status) == statusBarCommand

\* The status bar after a segment of a wait loop: the start command updates
\* it once its wait has returned.
BarAfterWait(wt, status) ==
    IF wt.pc = "done" /\ wt.caller = "start"
    THEN updateStatusBar(getWorkspaceRoot, status)
    ELSE statusBarCommand

\* The invocations of waitForOpenRelik and the suspended newWorker
\* invocations are bags: invocations in the same state are interchangeable.
\* A wait that has returned to the start command is over with it; one
\* called on its own stays, for its result to be looked at.
Over(wt) == wt.pc = "done" /\ wt.caller = "start"

One(x) == SetToBag({x})

Put(bag, wt) == IF Over(wt) THEN bag ELSE bag (+) One(wt)

Fetching(bag) ==
    BagCardinality([wt \in {x \in BagToSet(bag) : x.pc = "fetch"} |-> bag[wt]])

(***************************************************************************)
(* Terminals.  `terminals` lists the open terminals in creation order, as  *)
(* vscode.window.terminals does.  An element of workerTerminals is the     *)
(* position of its terminal in that list, or 0 when the terminal has been  *)
(* closed: a closed terminal is in no list of the window, and all the      *)
(* extension can do with it is dispose() it again, which does nothing.     *)
(* A handler works on the list with the terminals it closes flagged and    *)
(* the ones it creates appended; Compact and Renumber then bring the       *)
(* result back to this form.                                               *)
(***************************************************************************)
NewTerminal(name) == [name |-> name, open |-> TRUE]

\* Mutant of DisposeAll: the loop over the list disposes nothing.
DisposeNone(terms, list) == terms

\* dispose() on each terminal of the list; disposing a closed one is a no-op.
DisposeAll(terms, list) ==
    [i \in 1..Len(terms) |->
        IF i \in Range(list) THEN [terms[i] EXCEPT !.open = FALSE]
        ELSE terms[i]]

\* The open terminals of a list, in order.
Compact(terms) == SelectSeq(terms, LAMBDA t : t.open)

\* The references of a list of terminals, for the compacted list.
Renumber(terms, list) ==
    [k \in 1..Len(list) |->
        IF list[k] = 0 \/ ~terms[list[k]].open THEN 0
        ELSE Cardinality({i \in 1..list[k] : terms[i].open})]

(***************************************************************************)
(* History of the last segment: what it was given and said (sent, outcome, *)
(* healthy = what checkHealth returned, returned = what a wait that        *)
(* returned in it returned, notes = its notifications) and what it did:    *)
(* terms and workers are the terminals and the worker list it leaves.      *)
(* given is what the segment found around it: whether the openrelik-dev    *)
(* folder and the newWorker.sh script exist and what the input box gave.   *)
(* alone tells whether the last start found no other wait loop and no      *)
(* stop has run since.                                                     *)
(* fault names the call of the editor API that threw in the segment, if    *)
(* one did, and propagated tells whether the exception left the handler.   *)
(***************************************************************************)
Given(devPath, input, script) ==
    [devPath |-> devPath, input |-> input, script |-> script]

NoGiven == Given("none", "none", "none")

Present(exists) == IF exists THEN "present" ELSE "absent"

Op(kind, given, terms, workers, sent, outcome, healthy, returned, notes) ==
    [op |-> kind,
     given |-> given,
     fault |-> "none",
     propagated |-> FALSE,
     alone |-> IF kind = "start" /\ sent # <<>> THEN waiters = EmptyBag
               ELSE IF kind = "stop" THEN FALSE
               ELSE lastOp.alone,
     preStatus |-> dockerComposeStatus,
     preWorkers |-> Len(workerTerminals),
     workersKept |-> (workers = workerTerminals),
     workersLeftOpen |-> Cardinality({k \in 1..Len(workerTerminals) :
                            /\ workerTerminals[k] # 0
                            /\ terms[workerTerminals[k]].open}),
     created |-> Len(terms) - Len(terminals),
     disposed |-> Cardinality({i \in 1..Len(terminals) : ~terms[i].open}),
     sent |-> sent,
     fetches |-> IF Fetching(waiters') > Fetching(waiters)
                 THEN Fetching(waiters') - Fetching(waiters) ELSE 0,
     prompted |-> BagCardinality(prompts') > BagCardinality(prompts),
     outcome |-> outcome,
     healthy |-> healthy,
     returned |-> returned,
     notes |-> notes]

\* Whether the segment that now ends was a stop.
Prev == IF lastOp.op = "stop" THEN "stop" ELSE "other"

\* Whether a probe outcome is a 2xx response.
Is2xx(outcome) ==
    outcome.type = "response" /\ outcome.status \in 200..299

(***************************************************************************)
(* Initial state: the module is loaded and activate() has run.             *)
(***************************************************************************)
Activated ==
    [op |-> "activate", given |-> NoGiven, fault |-> "none",
     propagated |-> FALSE, alone |-> FALSE,
     preStatus |-> "stopped", preWorkers |-> 0,
     workersKept |-> TRUE, workersLeftOpen |-> 0, created |-> 0,
     disposed |-> 0, sent |-> <<>>, fetches |-> 0, prompted |-> FALSE,
     outcome |-> NoOutcome, healthy |-> "none", returned |-> "none",
     notes |-> <<>>]

Init ==
    /\ dockerComposeStatus = "stopped"
    /\ workerTerminals = <<>>
    /\ terminals = <<>>
    /\ workspaceFolders \in {<<>>, <<"/ws">>}
    /\ waiters = EmptyBag
    /\ prompts = EmptyBag
    /\ statusBarCommand =
          IF workspaceFolders = <<>> THEN "hidden"
          ELSE updateStatusBar(workspaceFolders[1], "stopped")
    /\ lastOp = Activated
    /\ prevOp = "other"
    /\ okSinceStart = FALSE
    /\ statusWriter = "init"
    /\ workerChecks = <<>>

(***************************************************************************)
(* openrelik.startOpenRelik; devPathExists is fs.existsSync(devPath).      *)
(***************************************************************************)
\* Mutant of StartOpenRelik: a start gives up the wait loops of earlier
\* starts and keeps only its own.
StartOpenRelikSupersedes(devPathExists) ==
    LET workspacePath == getWorkspaceRoot IN
    IF ~Truthy(workspacePath)
    THEN /\ okSinceStart' = FALSE
         /\ UNCHANGED <<dockerComposeStatus, workerTerminals, terminals,
                        workspaceFolders, waiters, prompts, statusBarCommand,
                        statusWriter, workerChecks>>
         /\ lastOp' = Op("start", NoGiven, terminals, workerTerminals, <<>>,
                         NoOutcome, "none", "none", <<"warning">>)
         /\ prevOp' = Prev
    ELSE LET cmd == IF ~devPathExists THEN "clone" ELSE "start"
             terms == Append(terminals, NewTerminal("OpenRelik"))
             wt == waitForOpenRelik("start", MaxRetries)
         IN
         /\ BagCardinality(waiters) < MaxStarts
         /\ Len(terminals) < MaxTerminals
         /\ terminals' = Compact(terms)
         /\ workerTerminals' = Renumber(terms, workerTerminals)
         /\ dockerComposeStatus' = "unknown"
         /\ waiters' = Put(EmptyBag, wt)
         /\ statusBarCommand' = updateStatusBar(workspacePath, "unknown")
         /\ okSinceStart' = FALSE
         /\ statusWriter' = "start"
         /\ UNCHANGED <<workspaceFolders, prompts, workerChecks>>
         /\ lastOp' = Op("start",
                         Given(Present(devPathExists), "none", "none"),
                         terms, workerTerminals,
                         <<<<"OpenRelik", "new", cmd>>>>, NoOutcome, "none",
                         wt.ret,
                         <<"info", "warning", "info">>
                         \o (IF wt.ret = "false" THEN <<"error">> ELSE <<>>))
         /\ prevOp' = Prev

\* Mutant of StartOpenRelik: the status is left as it was until a probe
\* writes it.
StartOpenRelikKeepsStatus(devPathExists) ==
    LET workspacePath == getWorkspaceRoot IN
    IF ~Truthy(workspacePath)
    THEN /\ okSinceStart' = FALSE
         /\ UNCHANGED <<dockerComposeStatus, workerTerminals, terminals,
                        workspaceFolders, waiters, prompts, statusBarCommand,
                        statusWriter, workerChecks>>
         /\ lastOp' = Op("start", NoGiven, terminals, workerTerminals, <<>>,
                         NoOutcome, "none", "none", <<"warning">>)
         /\ prevOp' = Prev
    ELSE LET cmd == IF ~devPathExists THEN "clone" ELSE "start"
             terms == Append(terminals, NewTerminal("OpenRelik"))
             wt == waitForOpenRelik("start", MaxRetries)
         IN
         /\ BagCardinality(waiters) < MaxStarts
         /\ Len(terminals) < MaxTerminals
         /\ terminals' = Compact(terms)
         /\ workerTerminals' = Renumber(terms, workerTerminals)
         /\ waiters' = Put(waiters, wt)
         /\ statusBarCommand' =
               updateStatusBar(workspacePath, dockerComposeStatus)
         /\ okSinceStart' = FALSE
         /\ UNCHANGED <<dockerComposeStatus, statusWriter, workspaceFolders,
                        prompts, workerChecks>>
         /\ lastOp' = Op("start",
                         Given(Present(devPathExists), "none", "none"),
                         terms, workerTerminals,
                         <<<<"OpenRelik", "new", cmd>>>>, NoOutcome, "none",
                         wt.ret,
                         <<"info", "warning", "info">>
                         \o (IF wt.ret = "false" THEN <<"error">> ELSE <<>>))
         /\ prevOp' = Prev

\* Mutant of StartOpenRelik: an open terminal named OpenRelik is used again,
\* as the stop command does.
StartOpenRelikReusesTerminal(devPathExists) ==
    LET workspacePath == getWorkspaceRoot IN
    IF ~Truthy(workspacePath)
    THEN /\ okSinceStart' = FALSE
         /\ UNCHANGED <<dockerComposeStatus, workerTerminals, terminals,
                        workspaceFolders, waiters, prompts, statusBarCommand,
                        statusWriter, workerChecks>>
         /\ lastOp' = Op("start", NoGiven, terminals, workerTerminals, <<>>,
                         NoOutcome, "none", "none", <<"warning">>)
         /\ prevOp' = Prev
    ELSE LET cmd == IF ~devPathExists THEN "clone" ELSE "start"
             found == getTerminal("OpenRelik")
             terms == IF found = 0
                      THEN Append(terminals, NewTerminal("OpenRelik"))
                      ELSE terminals
             wt == waitForOpenRelik("start", MaxRetries)
         IN
         /\ BagCardinality(waiters) < MaxStarts
         /\ found = 0 => Len(terminals) < MaxTerminals
         /\ terminals' = Compact(terms)
         /\ workerTerminals' = Renumber(terms, workerTerminals)
         /\ dockerComposeStatus' = "unknown"
         /\ waiters' = Put(waiters, wt)
         /\ statusBarCommand' = updateStatusBar(workspacePath, "unknown")
         /\ okSinceStart' = FALSE
         /\ statusWriter' = "start"
         /\ UNCHANGED <<workspaceFolders, prompts, workerChecks>>
         /\ lastOp' = Op("start",
                         Given(Present(devPathExists), "none", "none"),
                         terms, workerTerminals,
                         <<<<"OpenRelik",
                             IF found = 0 THEN "new" ELSE "found", cmd>>>>,
                         NoOutcome, "none", wt.ret,
                         <<"info", "warning", "info">>
                         \o (IF wt.ret = "false" THEN <<"error">> ELSE <<>>))
         /\ prevOp' = Prev

StartOpenRelik(devPathExists) ==
    LET workspacePath == getWorkspaceRoot IN
    IF ~Truthy(workspacePath)
    THEN /\ okSinceStart' = FALSE
         /\ UNCHANGED <<dockerComposeStatus, workerTerminals, terminals,
                        workspaceFolders, waiters, prompts, statusBarCommand,
                        statusWriter, workerChecks>>
         /\ lastOp' = Op("start", NoGiven, terminals, workerTerminals, <<>>,
                         NoOutcome, "none", "none", <<"warning">>)
         /\ prevOp' = Prev
    ELSE LET cmd == IF ~devPathExists THEN "clone" ELSE "start"
             terms == Append(terminals, NewTerminal("OpenRelik"))
             wt == waitForOpenRelik("start", MaxRetries)
         IN
         /\ BagCardinality(waiters) < MaxStarts
         /\ Len(terminals) < MaxTerminals
         /\ terminals' = Compact(terms)
         /\ workerTerminals' = Renumber(terms, workerTerminals)
         /\ dockerComposeStatus' = "unknown"
         /\ waiters' = Put(waiters, wt)
         /\ statusBarCommand' = updateStatusBar(workspacePath, "unknown")
         /\ okSinceStart' = FALSE
         /\ statusWriter' = "start"
         /\ UNCHANGED <<workspaceFolders, prompts, workerChecks>>
         /\ lastOp' = Op("start",
                         Given(Present(devPathExists), "none", "none"),
                         terms, workerTerminals,
                         <<<<"OpenRelik", "new", cmd>>>>, NoOutcome, "none",
                         wt.ret,
                         <<"info", "warning", "info">>
                         \o (IF wt.ret = "false" THEN <<"error">> ELSE <<>>))
         /\ prevOp' = Prev

\* Mutant of StopOpenRelik: the stop also abandons the wait loops of the
\* starts before it.
StopOpenRelikCancelsWait ==
    LET devPath == DevPathOf(getWorkspaceRoot)
        found == getTerminal("OpenRelik")
        shown == IF found = 0
                 THEN Append(terminals, NewTerminal("Stop OpenRelik"))
                 ELSE terminals
        terms == DisposeAll(shown, workerTerminals)
    IN
    /\ found = 0 => Len(terminals) < MaxTerminals
    /\ dockerComposeStatus' = "stopped"
    /\ statusBarCommand' = updateStatusBar(devPath, "stopped")
    /\ terminals' = Compact(terms)
    /\ workerTerminals' = <<>>
    /\ workerChecks' = <<>>
    /\ statusWriter' = "stop"
    /\ waiters' = EmptyBag
    /\ UNCHANGED <<workspaceFolders, prompts, okSinceStart>>
    /\ lastOp' = Op("stop", NoGiven, terms, <<>>,
                    <<<<shown[IF found = 0 THEN Len(shown) ELSE found].name,
                        IF found = 0 THEN "new" ELSE "found", "stop">>>>,
                    NoOutcome, "none", "none", <<"info", "info">>)
    /\ prevOp' = Prev

\* Mutant of StopOpenRelik: the worker terminals are disposed but the list is
\* not emptied.
StopOpenRelikKeepsList ==
    LET devPath == DevPathOf(getWorkspaceRoot)
        found == getTerminal("OpenRelik")
        shown == IF found = 0
                 THEN Append(terminals, NewTerminal("Stop OpenRelik"))
                 ELSE terminals
        terms == DisposeAll(shown, workerTerminals)
    IN
    /\ found = 0 => Len(terminals) < MaxTerminals
    /\ dockerComposeStatus' = "stopped"
    /\ statusBarCommand' = updateStatusBar(devPath, "stopped")
    /\ terminals' = Compact(terms)
    /\ workerTerminals' = Renumber(terms, workerTerminals)
    /\ statusWriter' = "stop"
    /\ UNCHANGED <<workspaceFolders, waiters, prompts, okSinceStart,
                   workerChecks>>
    /\ lastOp' = Op("stop", NoGiven, terms, workerTerminals,
                    <<<<shown[IF found = 0 THEN Len(shown) ELSE found].name,
                        IF found = 0 THEN "new" ELSE "found", "stop">>>>,
                    NoOutcome, "none", "none", <<"info", "info">>)
    /\ prevOp' = Prev

(***************************************************************************)
(* openrelik.stopOpenRelik                                                 *)
(***************************************************************************)
StopOpenRelik ==
    LET workspacePath == getWorkspaceRoot
        devPath == DevPathOf(workspacePath)
    IN
    IF ~Truthy(devPath)
    THEN /\ UNCHANGED <<dockerComposeStatus, workerTerminals, terminals,
                        workspaceFolders, waiters, prompts, statusBarCommand,
                        okSinceStart, statusWriter, workerChecks>>
         /\ lastOp' = Op("stop", NoGiven, terminals, workerTerminals, <<>>,
                         NoOutcome, "none", "none", <<"warning">>)
         /\ prevOp' = Prev
    ELSE LET found == getTerminal("OpenRelik")
             shown == IF found = 0
                      THEN Append(terminals, NewTerminal("Stop OpenRelik"))
                      ELSE terminals
             id == IF found = 0 THEN Len(shown) ELSE found
             terms == DisposeAll(shown, workerTerminals)
         IN
         /\ found = 0 => Len(terminals) < MaxTerminals
         /\ dockerComposeStatus' = "stopped"
         /\ statusBarCommand' = updateStatusBar(devPath, "stopped")
         /\ terminals' = Compact(terms)
         /\ workerTerminals' = <<>>
         /\ workerChecks' = <<>>
         /\ statusWriter' = "stop"
         /\ UNCHANGED <<workspaceFolders, waiters, prompts, okSinceStart>>
         /\ lastOp' = Op("stop", NoGiven, terms, <<>>,
                         <<<<shown[id].name,
                             IF found = 0 THEN "new" ELSE "found", "stop">>>>,
                         NoOutcome, "none", "none", <<"info", "info">>)
         /\ prevOp' = Prev

(***************************************************************************)
(* openrelik.newWorker, up to the input box                                *)
(***************************************************************************)
\* Mutant of NewWorkerGuard: only a stopped platform is refused.
NewWorkerGuardNotStopped(status, devPath) ==
    status # "stopped" /\ Truthy(devPath)

\* Mutant of NewWorkerGuard: the status is not looked at.
NewWorkerGuardAnyStatus(status, devPath) == Truthy(devPath)

NewWorkerGuard(status, devPath) == status = "running" /\ Truthy(devPath)

NewWorker ==
    LET devPath == DevPathOf(getWorkspaceRoot) IN
    IF NewWorkerGuard(dockerComposeStatus, devPath)
    THEN /\ BagCardinality(prompts) < MaxPrompts
         /\ prompts' = prompts (+) One(dockerComposeStatus)
         /\ UNCHANGED <<dockerComposeStatus, workerTerminals, terminals,
                        workspaceFolders, waiters, statusBarCommand,
                        okSinceStart, statusWriter, workerChecks>>
         /\ lastOp' = Op("newWorker", NoGiven, terminals, workerTerminals, <<>>,
                         NoOutcome, "none", "none", <<>>)
         /\ prevOp' = Prev
    ELSE /\ UNCHANGED <<dockerComposeStatus, workerTerminals, terminals,
                        workspaceFolders, waiters, prompts, statusBarCommand,
                        okSinceStart, statusWriter, workerChecks>>
         /\ lastOp' = Op("newWorker", NoGiven, terminals, workerTerminals, <<>>,
                         NoOutcome, "none", "none", <<"error">>)
         /\ prevOp' = Prev

(***************************************************************************)
(* openrelik.newWorker, from the answer of the input box to its end        *)
(***************************************************************************)
\* Mutant of InputBoxResolves: the new worker terminal is pushed onto the
\* list as it is, the terminals already in it stay open and tracked.
InputBoxResolvesAppends(tested, userInput) ==
    /\ BagIn(tested, prompts)
    /\ prompts' = prompts (-) One(tested)
    /\ UNCHANGED <<dockerComposeStatus, workspaceFolders, waiters,
                   statusBarCommand, okSinceStart, statusWriter>>
    /\ IF Truthy(userInput)
       THEN LET name == "Worker: " \o userInput
                terms == Append(terminals, NewTerminal(name))
                workers == Append(workerTerminals, Len(terms))
            IN
            /\ Len(Compact(terms)) <= MaxTerminals
            /\ terminals' = Compact(terms)
            /\ workerTerminals' = Renumber(terms, workers)
            /\ workerChecks' = Append(workerChecks, tested)
            /\ \E scriptExists \in BOOLEAN :
                  lastOp' = Op("input",
                               Given("none", userInput, Present(scriptExists)),
                               terms, workers,
                               <<<<name, "new", "worker">>>>, NoOutcome,
                               "none", "none", <<"info">>)
       ELSE /\ UNCHANGED <<terminals, workerTerminals, workerChecks>>
            /\ lastOp' = Op("input", Given("none", userInput, "none"),
                            terminals, workerTerminals, <<>>,
                            NoOutcome, "none", "none", <<"info">>)
    /\ prevOp' = Prev

InputBoxResolves(tested, userInput) ==
    /\ BagIn(tested, prompts)
    /\ prompts' = prompts (-) One(tested)
    /\ UNCHANGED <<dockerComposeStatus, workspaceFolders, waiters,
                   statusBarCommand, okSinceStart, statusWriter>>
    /\ IF Truthy(userInput)
       THEN LET name == "Worker: " \o userInput
                terms == Append(DisposeAll(terminals, workerTerminals),
                                NewTerminal(name))
                workers == <<Len(terms)>>
            IN
            /\ Len(Compact(terms)) <= MaxTerminals
            /\ terminals' = Compact(terms)
            /\ workerTerminals' = Renumber(terms, workers)
            /\ workerChecks' = <<tested>>
            \* newWorker.sh is there or not: the handler does not look.
            /\ \E scriptExists \in BOOLEAN :
                  lastOp' = Op("input",
                               Given("none", userInput, Present(scriptExists)),
                               terms, workers,
                               <<<<name, "new", "worker">>>>, NoOutcome,
                               "none", "none", <<"info">>)
       ELSE /\ UNCHANGED <<terminals, workerTerminals, workerChecks>>
            /\ lastOp' = Op("input", Given("none", userInput, "none"),
                            terminals, workerTerminals, <<>>,
                            NoOutcome, "none", "none", <<"info">>)
    /\ prevOp' = Prev

(***************************************************************************)
(* The fetch of a health probe settles: checkHealth returns and the wait   *)
(* loop runs on to its timer or to its return.  An exception of            *)
(* checkHealth would leave the loop and end in the catch of the start      *)
(* command.                                                                *)
(***************************************************************************)
FetchCompletes(loop, outcome) ==
    LET h == checkHealth(outcome)
        wt == IF h.raised
              THEN [loop EXCEPT !.pc = "done", !.ret = "raised"]
              ELSE AfterProbe(loop, h.ret)
    IN
    /\ BagIn(loop, waiters)
    /\ loop.pc = "fetch"
    /\ dockerComposeStatus' = h.status
    /\ waiters' = Put(waiters (-) One(loop), wt)
    /\ statusBarCommand' =
          IF h.raised THEN statusBarCommand ELSE BarAfterWait(wt, h.status)
    /\ okSinceStart' = (okSinceStart \/ Is2xx(outcome))
    /\ statusWriter' = "probe"
    /\ UNCHANGED <<workerTerminals, terminals, workspaceFolders, prompts,
                   workerChecks>>
    /\ lastOp' = Op("probe", NoGiven, terminals, workerTerminals, <<>>, outcome,
                    IF h.raised THEN "raised"
                    ELSE IF h.ret THEN "true" ELSE "false",
                    wt.ret,
                    IF h.raised THEN <<"error">>
                    ELSE IF h.ret THEN <<"info">> ELSE <<"progress">>)
    /\ prevOp' = Prev

(***************************************************************************)
(* The retry timer of a wait loop fires: the loop test runs again.         *)
(***************************************************************************)
TimerFires(loop) ==
    LET wt == LoopHead(loop) IN
    /\ BagIn(loop, waiters)
    /\ loop.pc = "sleep"
    /\ waiters' = Put(waiters (-) One(loop), wt)
    /\ statusBarCommand' = BarAfterWait(wt, dockerComposeStatus)
    /\ UNCHANGED <<dockerComposeStatus, workerTerminals, terminals,
                   workspaceFolders, prompts, okSinceStart, statusWriter,
                   workerChecks>>
    /\ lastOp' = Op("timer", NoGiven, terminals, workerTerminals, <<>>, NoOutcome,
                    "none", wt.ret,
                    IF wt.pc = "done" THEN <<"error">> ELSE <<>>)
    /\ prevOp' = Prev

(***************************************************************************)
(* The environment: the user (or the `exit` of its shell) closes a         *)
(* terminal.                                                               *)
(***************************************************************************)
TerminalCloses(i) ==
    LET terms == [terminals EXCEPT ![i].open = FALSE] IN
    /\ i \in 1..Len(terminals)
    /\ terminals' = Compact(terms)
    /\ workerTerminals' = Renumber(terms, workerTerminals)
    /\ UNCHANGED <<dockerComposeStatus, workspaceFolders, waiters, prompts,
                   statusBarCommand, lastOp, prevOp, okSinceStart,
                   statusWriter, workerChecks>>

Next ==
    \/ \E devPathExists \in BOOLEAN : StartOpenRelik(devPathExists)
    \/ StopOpenRelik
    \/ NewWorker
    \/ \E tested \in BagToSet(prompts), userInput \in Inputs :
          InputBoxResolves(tested, userInput)
    \/ \E loop \in BagToSet(waiters), outcome \in SomeOutcomes :
          FetchCompletes(loop, outcome)
    \/ \E loop \in BagToSet(waiters) : TimerFires(loop)
    \/ \E i \in 1..MaxTerminals : TerminalCloses(i)

Spec == Init /\ [][Next]_vars

(***************************************************************************)
(* Failures of the editor API.  A call of the API made by a handler        *)
(* (createTerminal, show, sendText, dispose, showInputBox) throws; the     *)
(* handler is left at that call and keeps the effects of what it ran       *)
(* before it.  The                                                         *)
(* exception is caught when the call is inside the try block of the        *)
(* handler, whose catch shows one error message.                           *)
(***************************************************************************)
\* The source lines of the calls that can throw, by handler.
CallSites ==
    [start |-> [createTerminal |-> 174, show |-> 175, sendText |-> 178],
     stop |-> [createTerminal |-> 208, show |-> 210, sendText |-> 211,
               dispose |-> 217],
     newWorker |-> [showInputBox |-> 233, dispose |-> 240,
                    createTerminal |-> 243, show |-> 244, sendText |-> 245]]

\* Mutant of TryBlock: the try blocks open one statement later.
TryBlockOpensLate ==
    [start |-> <<174, 190>>, stop |-> <<206, 220>>, newWorker |-> <<233, 252>>]

\* The lines of `try {` and of `} catch` in each handler.
TryBlock ==
    [start |-> <<173, 190>>, stop |-> <<205, 220>>, newWorker |-> <<231, 252>>]

Caught(handler, call) ==
    /\ TryBlock[handler][1] < CallSites[handler][call]
    /\ CallSites[handler][call] < TryBlock[handler][2]

\* The history of a segment that a throwing call ended.
Thrown(op, handler, call) ==
    [op EXCEPT !.fault = call,
               !.propagated = ~Caught(handler, call),
               !.notes = IF Caught(handler, call) THEN Append(@, "error")
                         ELSE @]

StartOpenRelikThrows(devPathExists, call) ==
    LET terms == IF call = "createTerminal" THEN terminals
                 ELSE Append(terminals, NewTerminal("OpenRelik"))
    IN
    /\ Truthy(getWorkspaceRoot)
    /\ call \in DOMAIN CallSites.start
    /\ Len(terms) <= MaxTerminals
    /\ terminals' = Compact(terms)
    /\ workerTerminals' = Renumber(terms, workerTerminals)
    /\ okSinceStart' = FALSE
    /\ UNCHANGED <<dockerComposeStatus, workspaceFolders, waiters, prompts,
                   statusBarCommand, statusWriter, workerChecks>>
    /\ lastOp' = Thrown(Op("start",
                           Given(Present(devPathExists), "none", "none"),
                           terms, workerTerminals, <<>>, NoOutcome, "none",
                           "none",
                           IF call = "sendText" THEN <<"info", "warning">>
                           ELSE <<"info">>),
                        "start", call)
    /\ prevOp' = Prev

StopOpenRelikThrows(call) ==
    LET devPath == DevPathOf(getWorkspaceRoot)
        found == getTerminal("OpenRelik")
        shown == IF found = 0 /\ call # "createTerminal"
                 THEN Append(terminals, NewTerminal("Stop OpenRelik"))
                 ELSE terminals
        id == IF found = 0 THEN Len(shown) ELSE found
    IN
    /\ Truthy(devPath)
    /\ call \in DOMAIN CallSites.stop
    /\ call = "createTerminal" => found = 0
    /\ call = "dispose" => workerTerminals # <<>>
    /\ Len(shown) <= MaxTerminals
    /\ terminals' = Compact(shown)
    /\ workerTerminals' = Renumber(shown, workerTerminals)
    /\ IF call = "dispose"
       THEN /\ dockerComposeStatus' = "stopped"
            /\ statusBarCommand' = updateStatusBar(devPath, "stopped")
            /\ statusWriter' = "stop"
       ELSE UNCHANGED <<dockerComposeStatus, statusBarCommand, statusWriter>>
    /\ UNCHANGED <<workspaceFolders, waiters, prompts, okSinceStart,
                   workerChecks>>
    /\ lastOp' = Thrown(Op("stop", NoGiven, shown, workerTerminals,
                           IF call = "dispose"
                           THEN <<<<shown[id].name,
                                    IF found = 0 THEN "new" ELSE "found",
                                    "stop">>>>
                           ELSE <<>>,
                           NoOutcome, "none", "none",
                           IF call = "dispose" THEN <<"info", "info">>
                           ELSE <<"info">>),
                        "stop", call)
    /\ prevOp' = Prev

\* showInputBox rejects.
InputBoxRejects(tested) ==
    /\ BagIn(tested, prompts)
    /\ prompts' = prompts (-) One(tested)
    /\ UNCHANGED <<dockerComposeStatus, workerTerminals, terminals,
                   workspaceFolders, waiters, statusBarCommand, okSinceStart,
                   statusWriter, workerChecks>>
    /\ lastOp' = Thrown(Op("input", NoGiven, terminals, workerTerminals,
                           <<>>, NoOutcome, "none", "none", <<>>),
                        "newWorker", "showInputBox")
    /\ prevOp' = Prev

InputBoxResolvesThrows(tested, userInput, call) ==
    LET name == "Worker: " \o userInput
        disposed == IF call = "dispose" THEN terminals
                    ELSE DisposeAll(terminals, workerTerminals)
        terms == IF call \in {"show", "sendText"}
                 THEN Append(disposed, NewTerminal(name))
                 ELSE disposed
        workers == IF call = "dispose" THEN workerTerminals ELSE <<>>
    IN
    /\ BagIn(tested, prompts)
    /\ Truthy(userInput)
    /\ call \in DOMAIN CallSites.newWorker \ {"showInputBox"}
    /\ call = "dispose" => workerTerminals # <<>>
    /\ Len(Compact(terms)) <= MaxTerminals
    /\ prompts' = prompts (-) One(tested)
    /\ terminals' = Compact(terms)
    /\ workerTerminals' = Renumber(terms, workers)
    /\ workerChecks' = IF call = "dispose" THEN workerChecks ELSE <<>>
    /\ UNCHANGED <<dockerComposeStatus, workspaceFolders, waiters,
                   statusBarCommand, okSinceStart, statusWriter>>
    /\ lastOp' = Thrown(Op("input", Given("none", userInput, "none"),
                           terms, workers, <<>>, NoOutcome, "none", "none",
                           <<>>),
                        "newWorker", call)
    /\ prevOp' = Prev

\* The outcomes of a probe explored with the failures: a healthy and an
\* unhealthy one.
FaultOutcomes ==
    {o \in Outcomes : o.type \in {"response", "AbortError"}
                      /\ o.status \in {0, 200}}

\* The commands with and without a failure, in an environment that is
\* enough to bring every handler before every state it reads: one start at
\* a time, and of the terminals only the worker terminals are closed by
\* the user.
NextFaults ==
    \/ \E devPathExists \in BOOLEAN :
          waiters = EmptyBag /\ StartOpenRelik(devPathExists)
    \/ StopOpenRelik
    \/ NewWorker
    \/ \E tested \in BagToSet(prompts), userInput \in Inputs :
          InputBoxResolves(tested, userInput)
    \/ \E loop \in BagToSet(waiters), outcome \in FaultOutcomes :
          FetchCompletes(loop, outcome)
    \/ \E loop \in BagToSet(waiters) : TimerFires(loop)
    \/ \E i \in Range(workerTerminals) : TerminalCloses(i)
    \/ \E devPathExists \in BOOLEAN, call \in DOMAIN CallSites.start :
          StartOpenRelikThrows(devPathExists, call)
    \/ \E call \in DOMAIN CallSites.stop : StopOpenRelikThrows(call)
    \/ \E tested \in BagToSet(prompts) : InputBoxRejects(tested)
    \/ \E tested \in BagToSet(prompts), userInput \in Inputs,
          call \in DOMAIN CallSites.newWorker :
          InputBoxResolvesThrows(tested, userInput, call)

SpecFaults == Init /\ [][NextFaults]_vars

(***************************************************************************)
(* Progress.  The fetch of a probe always settles: the response arrives,   *)
(* the connection fails, or the abort armed at extension.ts:14 rejects it  *)
(* after the timeout.  The timer of extension.ts:57 always fires.  Both    *)
(* are therefore weakly fair; the commands of the user are not.  One start *)
(* waits at a time, so that the loop that returns is the loop that was     *)
(* suspended.                                                              *)
(***************************************************************************)
FetchSettles ==
    \E loop \in BagToSet(waiters), outcome \in SomeOutcomes :
        FetchCompletes(loop, outcome)

TimerExpires == \E loop \in BagToSet(waiters) : TimerFires(loop)

NextLive ==
    \/ \E devPathExists \in BOOLEAN :
          waiters = EmptyBag /\ StartOpenRelik(devPathExists)
    \/ StopOpenRelik
    \/ FetchSettles
    \/ TimerExpires
    \/ \E i \in 1..MaxTerminals : TerminalCloses(i)

SpecLive ==
    Init /\ [][NextLive]_vars /\ WF_vars(FetchSettles) /\ WF_vars(TimerExpires)

(***************************************************************************)
(* waitForOpenRelik called on its own, for every retry budget and from     *)
(* every status: the call has run up to its first suspension, then only    *)
(* its fetches and timers happen, with every outcome of a probe.           *)
(***************************************************************************)
InitWait ==
    /\ dockerComposeStatus \in Status
    /\ workerTerminals = <<>>
    /\ terminals = <<>>
    /\ workspaceFolders \in {<<>>, <<"/ws">>}
    /\ \E n \in 0..MaxWaitRetries :
          LET wt == waitForOpenRelik("direct", n) IN
          /\ waiters = One(wt)
          /\ lastOp = [Activated EXCEPT
                          !.op = "wait",
                          !.preStatus = dockerComposeStatus,
                          !.fetches = IF wt.pc = "fetch" THEN 1 ELSE 0,
                          !.returned = wt.ret,
                          !.notes = IF wt.ret = "false" THEN <<"error">>
                                    ELSE <<>>]
    /\ prompts = EmptyBag
    /\ statusBarCommand = updateStatusBar(getWorkspaceRoot, dockerComposeStatus)
    /\ prevOp = "other"
    /\ okSinceStart = FALSE
    /\ statusWriter = "init"
    /\ workerChecks = <<>>

NextWait ==
    \/ \E loop \in BagToSet(waiters), outcome \in Outcomes :
          FetchCompletes(loop, outcome)
    \/ \E loop \in BagToSet(waiters) : TimerFires(loop)

SpecWait == InitWait /\ [][NextWait]_vars

(***************************************************************************)
(* Properties of checkHealth.                                              *)
(***************************************************************************)
\* C1: a probe whose response status is in [200,299] returns true and leaves
\* the status running, whatever the status was before it.
ProbeOkReturnsHealthyAndRunning ==
    (lastOp.op = "probe" /\ Is2xx(lastOp.outcome))
        => (lastOp.healthy = "true" /\ dockerComposeStatus = "running")

\* A probe answered 299 while the status was stopped.
ProbeOkFromStoppedWitness ==
    /\ lastOp.op = "probe"
    /\ lastOp.outcome = [type |-> "response", status |-> 299]
    /\ lastOp.preStatus = "stopped"
    /\ dockerComposeStatus = "running"

\* C2: a probe with any other outcome (another status code, the timeout
\* abort, a refused connection, another transport error) returns false,
\* leaves the status unknown and throws nothing to its caller.
ProbeFailureReturnsUnhealthyAndUnknown ==
    (lastOp.op = "probe" /\ ~Is2xx(lastOp.outcome))
        => (lastOp.healthy = "false" /\ dockerComposeStatus = "unknown")

\* A probe that failed with a transport error while the status was running.
ProbeErrorFromRunningWitness ==
    /\ lastOp.op = "probe"
    /\ lastOp.outcome.type = "Error"
    /\ lastOp.preStatus = "running"
    /\ lastOp.healthy = "false"
    /\ dockerComposeStatus = "unknown"

(***************************************************************************)
(* Properties of waitForOpenRelik.                                         *)
(***************************************************************************)
\* The probes of the wait were unhealthy on calls 1..k-1 and healthy on call k.
FirstHealthyAt(wt, k) ==
    /\ Len(wt.results) >= k
    /\ wt.results[k]
    /\ \A i \in 1..(k - 1) : ~wt.results[i]

\* C3: for a retry budget n >= 1 and 1 <= k <= n, when the probe is unhealthy
\* on calls 1..k-1 and healthy on call k, the wait has returned true after
\* exactly k probes, with one success message and k-1 progress messages, and
\* neither sleeps nor probes after the healthy result.
WaitReturnsTrueAtFirstHealthy ==
    \A wt \in BagToSet(waiters) : \A k \in 1..wt.maxRetries :
        (wt.caller = "direct" /\ FirstHealthyAt(wt, k))
            => /\ wt.pc = "done"
               /\ wt.ret = "true"
               /\ wt.probes = k
               /\ Len(wt.results) = k
               /\ wt.success = 1
               /\ Len(wt.progress) = k - 1
               /\ wt.failure = 0

\* A wait with budget 3 that returned true on its second probe.
WaitHealthyOnSecondWitness ==
    /\ \E wt \in BagToSet(waiters) :
          /\ wt.caller = "direct"
          /\ wt.maxRetries = 3
          /\ wt.results = <<FALSE, TRUE>>
          /\ wt.ret = "true"
    /\ lastOp.op = "probe"

\* C4: for a retry budget n >= 0, when every probe is unhealthy the wait
\* returns false after exactly n probes, with the progress messages 1/n ..
\* n/n in this order, one failure message and no success message.
WaitReturnsFalseWhenExhausted ==
    \A wt \in BagToSet(waiters) :
        LET n == wt.maxRetries
        IN  (/\ wt.caller = "direct"
             /\ \A i \in 1..Len(wt.results) : ~wt.results[i])
            => /\ wt.probes <= n
               /\ wt.success = 0
               /\ wt.ret \in {"none", "false"}
               /\ wt.pc # "done" => wt.failure = 0 /\ wt.ret = "none"
               /\ wt.pc = "done"
                    => /\ wt.ret = "false"
                       /\ wt.probes = n
                       /\ Len(wt.results) = n
                       /\ wt.progress = [i \in 1..n |-> <<i, n>>]
                       /\ wt.failure = 1

\* A wait with budget 3 that returned false after three unhealthy probes.
WaitExhaustedWitness ==
    /\ \E wt \in BagToSet(waiters) :
          /\ wt.caller = "direct"
          /\ wt.maxRetries = 3
          /\ wt.results = <<FALSE, FALSE, FALSE>>
          /\ wt.ret = "false"
    /\ lastOp.op = "timer"

(***************************************************************************)
(* Properties of the commands.                                             *)
(***************************************************************************)
\* C5: newWorker invoked while the status is not running is refused with an
\* error message: no input box is opened, no terminal is created or
\* disposed, and the worker list and the status are as they were.
NewWorkerRefusedUnlessRunning ==
    (lastOp.op = "newWorker" /\ lastOp.preStatus # "running")
        => /\ lastOp.notes = <<"error">>
           /\ ~lastOp.prompted
           /\ lastOp.created = 0
           /\ lastOp.disposed = 0
           /\ lastOp.sent = <<>>
           /\ lastOp.workersKept
           /\ Len(workerTerminals) = lastOp.preWorkers
           /\ dockerComposeStatus = lastOp.preStatus

\* newWorker refused on a stopped platform that still tracks a worker.
NewWorkerRefusedWitness ==
    /\ lastOp.op = "newWorker"
    /\ lastOp.preStatus = "stopped"
    /\ lastOp.preWorkers = 1
    /\ lastOp.notes = <<"error">>
    /\ workerTerminals = <<1>>

\* C6: from any status and any tracked workers, a completed stop leaves the
\* status stopped, issues no health probe, has disposed every terminal that
\* was in the worker list and leaves the list empty.
StopLeavesStoppedAndNoWorkers ==
    lastOp.op = "stop"
        => /\ dockerComposeStatus = "stopped"
           /\ lastOp.fetches = 0
           /\ lastOp.workersLeftOpen = 0
           /\ workerTerminals = <<>>

\* A stop of a running platform that disposed its one open worker terminal.
StopDisposesWorkerWitness ==
    /\ lastOp.op = "stop"
    /\ lastOp.preStatus = "running"
    /\ lastOp.preWorkers = 1
    /\ lastOp.disposed = 1
    /\ workerTerminals = <<>>

\* C7: a stop that directly follows a stop finds the status stopped and the
\* worker list empty, leaves them so, disposes no terminal and reports no
\* error.
StopTwiceIsIdempotent ==
    (lastOp.op = "stop" /\ prevOp = "stop")
        => /\ lastOp.preStatus = "stopped"
           /\ lastOp.preWorkers = 0
           /\ dockerComposeStatus = "stopped"
           /\ workerTerminals = <<>>
           /\ lastOp.disposed = 0
           /\ lastOp.notes = <<"info", "info">>

\* Two stops in a row, the second one sent to the terminal of the start.
StopTwiceWitness ==
    /\ lastOp.op = "stop"
    /\ prevOp = "stop"
    /\ lastOp.sent = <<<<"OpenRelik", "found", "stop">>>>
    /\ workerTerminals = <<>>

\* C8, as stated: the worker list is non-empty only while the status is
\* running.
WorkersOnlyWhileRunning ==
    workerTerminals # <<>> => dockerComposeStatus = "running"

\* C8, amended: every terminal of the worker list was put there by a
\* newWorker whose status test, made before its input box, read running.
WorkersOnlyFromRunningCheck ==
    /\ Len(workerChecks) = Len(workerTerminals)
    /\ \A k \in 1..Len(workerChecks) : workerChecks[k] = "running"

\* A worker created on a stopped platform: the stop came while the input box
\* of the newWorker was open.
WorkerCreatedWhileStoppedWitness ==
    /\ lastOp.op = "input"
    /\ lastOp.created = 1
    /\ lastOp.preStatus = "stopped"
    /\ workerTerminals # <<>>
    /\ dockerComposeStatus = "stopped"

(***************************************************************************)
(* Properties of the status.                                               *)
(***************************************************************************)
\* C9: the status is running only if a probe has seen a 2xx response since
\* the last start request; start itself never leaves it running.
RunningOnlyAfterOkProbe ==
    /\ dockerComposeStatus = "running" => okSinceStart
    /\ lastOp.op = "start" => dockerComposeStatus # "running"

\* Running again after a second start: the first 2xx probe after it.
RunningAfterProbeWitness ==
    /\ dockerComposeStatus = "running"
    /\ okSinceStart
    /\ lastOp.op = "probe"
    /\ lastOp.preStatus = "unknown"
    /\ Len(terminals) >= 2
    /\ terminals[2].name = "OpenRelik"

\* C10: the status starts as stopped, and later only a stop makes it
\* stopped: no start, newWorker or probe does.
StoppedOnlyByStop ==
    /\ statusWriter = "init" => dockerComposeStatus = "stopped"
    /\ dockerComposeStatus = "stopped" => statusWriter \in {"init", "stop"}
    /\ (dockerComposeStatus = "stopped" /\ lastOp.preStatus # "stopped")
          => lastOp.op = "stop"

\* A stop that took the status from running to stopped.
StoppedByStopWitness ==
    /\ dockerComposeStatus = "stopped"
    /\ statusWriter = "stop"
    /\ lastOp.op = "stop"
    /\ lastOp.preStatus = "running"

(***************************************************************************)
(* Properties of the interleavings of the commands and the wait loops.     *)
(***************************************************************************)
\* C11, as stated: at most one invocation of waitForOpenRelik that has not
\* returned exists at any time.
AtMostOneWaitLoop == BagCardinality(waiters) <= 1

\* C11, amended: a start begins one wait loop and ends none: every loop that
\* was suspended before a command is suspended after it, in the same place,
\* the number of loops grows only in a start, by one, and shrinks only when
\* a loop returns after its own probe or its own timer, by one.
WaitLoopsEndOnlyByReturning ==
    [][/\ lastOp'.op \in {"start", "stop", "newWorker", "input"}
            => waiters \sqsubseteq waiters'
       /\ BagCardinality(waiters') > BagCardinality(waiters)
            => /\ lastOp'.op = "start"
               /\ BagCardinality(waiters') = BagCardinality(waiters) + 1
       /\ BagCardinality(waiters') < BagCardinality(waiters)
            => /\ lastOp'.op \in {"probe", "timer"}
               /\ lastOp'.returned \in {"true", "false"}
               /\ BagCardinality(waiters') = BagCardinality(waiters) - 1]_vars

\* A second start while the loop of the first one waits for its timer: two
\* loops are suspended.
TwoWaitLoopsWitness ==
    /\ lastOp.op = "start"
    /\ BagCardinality(waiters) = 2
    /\ \E wt \in BagToSet(waiters) : wt.pc = "sleep"
    /\ \E wt \in BagToSet(waiters) : wt.pc = "fetch"

\* C12: a stop that runs while a wait loop is suspended leaves the status
\* stopped and the loop as it was, and the next probe of the loop to settle
\* while the status is still stopped, with no start in between, overwrites
\* it: running for a 2xx response, unknown for any other outcome.
StopDoesNotCancelWaitLoop ==
    [][/\ (lastOp'.op = "stop" /\ waiters # EmptyBag)
            => (dockerComposeStatus' = "stopped" /\ waiters' = waiters)
       /\ (dockerComposeStatus = "stopped"
           /\ Fetching(waiters') < Fetching(waiters))
            => /\ lastOp'.op = "probe"
               /\ dockerComposeStatus' =
                     IF Is2xx(lastOp'.outcome) THEN "running" ELSE "unknown"]_vars

\* A stop came while the first probe of a start was in flight; the probe
\* then found the platform up: the status is running again, right after a
\* stop and with no start since.
RunningAgainAfterStopWitness ==
    /\ lastOp.op = "probe"
    /\ prevOp = "stop"
    /\ lastOp.preStatus = "stopped"
    /\ dockerComposeStatus = "running"
    /\ lastOp.outcome.status = 200
    /\ lastOp.returned = "true"

(***************************************************************************)
(* Properties of the commands without a workspace folder.                  *)
(***************************************************************************)
\* C13: a start with no workspace folder open shows a warning and nothing
\* else: it creates no terminal, sends no command, starts no wait loop and
\* leaves the status and the worker list as they were.
StartWithoutWorkspaceChangesNothing ==
    (lastOp.op = "start" /\ workspaceFolders = <<>>)
        => /\ lastOp.notes = <<"warning">>
           /\ lastOp.created = 0
           /\ lastOp.disposed = 0
           /\ lastOp.sent = <<>>
           /\ lastOp.fetches = 0
           /\ lastOp.returned = "none"
           /\ waiters = EmptyBag
           /\ lastOp.workersKept
           /\ Len(workerTerminals) = lastOp.preWorkers
           /\ dockerComposeStatus = lastOp.preStatus

\* A start refused for want of a workspace folder, right after a stop that
\* had opened its terminal.
StartRefusedWithoutWorkspaceWitness ==
    /\ lastOp.op = "start"
    /\ prevOp = "stop"
    /\ workspaceFolders = <<>>
    /\ lastOp.notes = <<"warning">>
    /\ Len(terminals) = 1
    /\ dockerComposeStatus = "stopped"

\* C14: a stop with no workspace folder open sends no shutdown command,
\* creates no terminal, disposes no worker terminal and leaves the status
\* and the worker list as they were.
StopWithoutWorkspaceChangesNothing ==
    (lastOp.op = "stop" /\ workspaceFolders = <<>>)
        => /\ lastOp.notes = <<"warning">>
           /\ lastOp.sent = <<>>
           /\ lastOp.created = 0
           /\ lastOp.disposed = 0
           /\ lastOp.workersKept
           /\ dockerComposeStatus = lastOp.preStatus

(***************************************************************************)
(* Properties of newWorker once its input box has answered.                *)
(***************************************************************************)
\* C15: a newWorker that was let through and got a non-empty name disposes
\* every terminal of the worker list and leaves in the list the one terminal
\* it creates, named after the input; the list never holds more than one
\* terminal, however the input boxes of several newWorker are answered.
NewWorkerSupersedesWorkers ==
    [][/\ Len(workerTerminals') <= 1
       /\ (prompts' # prompts /\ lastOp'.op = "input"
           /\ Truthy(lastOp'.given.input))
            => /\ lastOp'.workersLeftOpen = 0
               /\ lastOp'.disposed =
                     Cardinality({k \in 1..Len(workerTerminals) :
                                     workerTerminals[k] # 0})
               /\ lastOp'.created = 1
               /\ Len(terminals') = Len(terminals) - lastOp'.disposed + 1
               /\ workerTerminals' = <<Len(terminals')>>
               /\ terminals'[Len(terminals')].name
                     = "Worker: " \o lastOp'.given.input]_vars

\* Input boxes of several newWorker were open; an earlier answer created a
\* worker, this one disposed it and created its own, and a box is still
\* open.
SecondWorkerSupersedesFirstWitness ==
    /\ lastOp.op = "input"
    /\ prompts # EmptyBag
    /\ lastOp.given.input = "w1"
    /\ lastOp.preWorkers = 1
    /\ lastOp.disposed = 1
    /\ lastOp.created = 1
    /\ workerTerminals = <<Len(terminals)>>
    /\ terminals[Len(terminals)].name = "Worker: w1"

\* C16: when the input box is cancelled, the newWorker that opened it
\* disposes no terminal, creates none, sends no command and leaves the
\* worker list and the status as they were.
InputCancelledChangesNothing ==
    (lastOp.op = "input" /\ lastOp.given.input = Undefined)
        => /\ lastOp.disposed = 0
           /\ lastOp.created = 0
           /\ lastOp.sent = <<>>
           /\ lastOp.fetches = 0
           /\ lastOp.workersKept
           /\ Len(workerTerminals) = lastOp.preWorkers
           /\ dockerComposeStatus = lastOp.preStatus
           /\ lastOp.notes = <<"info">>

\* An input box cancelled while a worker terminal is open and tracked: it
\* still is.
InputCancelledKeepsWorkerWitness ==
    /\ lastOp.op = "input"
    /\ lastOp.given.input = Undefined
    /\ lastOp.preWorkers = 1
    /\ lastOp.workersLeftOpen = 1
    /\ Len(workerTerminals) = 1
    /\ workerTerminals[1] # 0
    /\ terminals[workerTerminals[1]].name = "Worker: w1"

\* C17: a newWorker that was let through and got a non-empty name, when the
\* script newWorker.sh is absent, reports an error and changes nothing: it
\* creates no terminal, tracks no new worker and sends no command.
MissingScriptReportedWithoutChange ==
    (lastOp.op = "input" /\ Truthy(lastOp.given.input)
     /\ lastOp.given.script = "absent")
        => /\ lastOp.notes = <<"error">>
           /\ lastOp.created = 0
           /\ lastOp.sent = <<>>
           /\ Len(workerTerminals) = lastOp.preWorkers

(***************************************************************************)
(* Properties of start.                                                    *)
(***************************************************************************)
\* C19: a start with a workspace folder, from any status, leaves the status
\* unknown with its first probe in flight; when no other start's loop was
\* suspended at the start and no stop has run since, the status at the
\* return of its wait is running if the wait returns true and unknown if it
\* returns false, never stopped.
StartSetsUnknownThenWaitDecides ==
    /\ (lastOp.op = "start" /\ workspaceFolders # <<>>)
          => /\ dockerComposeStatus = "unknown"
             /\ lastOp.fetches = 1
             /\ lastOp.returned = "none"
    /\ (lastOp.op \in {"probe", "timer"} /\ lastOp.alone
        /\ lastOp.returned # "none")
          => /\ lastOp.returned = "true" => dockerComposeStatus = "running"
             /\ lastOp.returned = "false" => dockerComposeStatus = "unknown"
             /\ lastOp.returned \in {"true", "false"}

\* A start, alone, whose wait ran out of attempts: the status is unknown.
StartExhaustedAloneWitness ==
    /\ lastOp.op = "timer"
    /\ lastOp.alone
    /\ lastOp.returned = "false"
    /\ dockerComposeStatus = "unknown"
    /\ waiters = EmptyBag

\* C20: every start with a workspace folder, whatever the status, creates a
\* new terminal named OpenRelik and sends it one command, the clone sequence
\* when the openrelik-dev folder is absent and the start script otherwise;
\* it uses no terminal that was already open, and the steps of its wait
\* loop send nothing.
StartOpensFreshTerminalOnce ==
    /\ (lastOp.op = "start" /\ workspaceFolders # <<>>)
          => /\ lastOp.created = 1
             /\ lastOp.disposed = 0
             /\ lastOp.sent =
                   <<<<"OpenRelik", "new",
                       IF lastOp.given.devPath = "absent" THEN "clone"
                       ELSE "start">>>>
             /\ lastOp.given.devPath \in {"absent", "present"}
    /\ lastOp.op \in {"probe", "timer"}
          => (lastOp.sent = <<>> /\ lastOp.created = 0)

\* A start on a running platform whose first OpenRelik terminal is still
\* open: a second terminal of that name was created for the start script.
StartAgainWhileRunningWitness ==
    /\ lastOp.op = "start"
    /\ lastOp.preStatus = "running"
    /\ lastOp.given.devPath = "present"
    /\ lastOp.created = 1
    /\ Len(terminals) = 2
    /\ terminals[1].name = "OpenRelik"
    /\ terminals[2].name = "OpenRelik"
    /\ dockerComposeStatus = "unknown"

(***************************************************************************)
(* Properties of the failures.                                             *)
(***************************************************************************)
\* C18: when a call of the editor API (createTerminal, show, sendText,
\* showInputBox, dispose) throws inside start, stop or newWorker, the
\* handler catches it, shows exactly one error message and ends without
\* letting the exception out; and a stop or a newWorker whose worker list
\* holds a terminal that is already closed disposes it without an error.
FailuresCaughtAtBoundary ==
    /\ lastOp.fault # "none"
          => /\ lastOp.op \in {"start", "stop", "input"}
             /\ ~lastOp.propagated
             /\ Cardinality({k \in 1..Len(lastOp.notes) :
                                lastOp.notes[k] = "error"}) = 1
             /\ lastOp.notes[Len(lastOp.notes)] = "error"
    /\ (lastOp.fault = "none" /\ lastOp.op \in {"stop", "input"}
        /\ lastOp.sent # <<>>)
          => /\ \A k \in 1..Len(lastOp.notes) : lastOp.notes[k] # "error"
             /\ lastOp.workersLeftOpen = 0

\* The dispose of the one worker terminal threw in a stop: the stop had
\* written the status and showed the error; the terminal is still tracked.
StopDisposeThrowsWitness ==
    /\ lastOp.op = "stop"
    /\ lastOp.fault = "dispose"
    /\ lastOp.preStatus = "running"
    /\ lastOp.notes = <<"info", "info", "error">>
    /\ dockerComposeStatus = "stopped"
    /\ Len(workerTerminals) = 1

(***************************************************************************)
(* Properties of the status bar.                                           *)
(***************************************************************************)
\* What the status bar item offers for a status.
Offered(status) ==
    CASE status = "running" -> "openrelik.stopOpenRelik"
      [] status = "stopped" -> "openrelik.startOpenRelik"
      [] status = "unknown" -> ""

\* C22: with a workspace folder open and no wait loop suspended, the status
\* bar item offers the command of the status: stop when running, start
\* when stopped, none (waiting) when unknown; an input box may be open.
\* While a wait loop is suspended the item may show an earlier status.
StatusBarMatchesStatusWhenIdle ==
    (workspaceFolders # <<>> /\ waiters = EmptyBag)
        => statusBarCommand = Offered(dockerComposeStatus)

\* A stop came during the wait of a start, then the probe found the
\* platform up and the wait returned: the item, which offered start after
\* the stop, offers stop.
StatusBarAfterInterleavedStopWitness ==
    /\ workspaceFolders # <<>>
    /\ waiters = EmptyBag
    /\ prompts = EmptyBag
    /\ lastOp.op = "probe"
    /\ prevOp = "stop"
    /\ lastOp.preStatus = "stopped"
    /\ dockerComposeStatus = "running"
    /\ statusBarCommand = "openrelik.stopOpenRelik"


(***************************************************************************)
(* Progress of the wait loop.                                              *)
(***************************************************************************)
\* C21: when every fetch settles and every timer fires, a wait loop issues
\* at most maxRetries probes and returns, its start then ends with the
\* status bar showing the status; a wait that returns true leaves the
\* status running, and a running status changes only by a start, a stop or
\* a failed probe.
WaitLoopReturnsUnderFairness ==
    /\ [](\A wt \in BagToSet(waiters) : wt.probes <= wt.maxRetries)
    /\ (waiters # EmptyBag)
          ~> (/\ waiters = EmptyBag
              /\ lastOp.op \in {"probe", "timer"}
              /\ lastOp.returned \in {"true", "false"}
              /\ statusBarCommand = Offered(dockerComposeStatus))
    /\ []((lastOp.op = "probe" /\ lastOp.returned = "true")
             => dockerComposeStatus = "running")
    /\ [][(dockerComposeStatus = "running" /\ dockerComposeStatus' # "running")
            => \/ lastOp'.op \in {"start", "stop"}
               \/ lastOp'.op = "probe" /\ lastOp'.healthy = "false"]_vars

\* The second probe of a start found the platform up, after a first one
\* that failed: the wait has returned true and the status is running.
WaitReturnedHealthyWitness ==
    /\ lastOp.op = "probe"
    /\ lastOp.returned = "true"
    /\ lastOp.preStatus = "unknown"
    /\ statusWriter = "probe"
    /\ lastOp.alone
    /\ waiters = EmptyBag
    /\ dockerComposeStatus = "running"
    /\ statusBarCommand = "openrelik.stopOpenRelik"
====
